---- MODULE Spec2Model ----
(***************************************************************************)
(* Voxel simulation engine (src/services/VoxelEngine.ts): the particle     *)
(* store, the structural integrity pass, the rebuild planner, the physics  *)
(* step and the STABLE / DISMANTLING / REBUILDING controller; and the part *)
(* of the App (src/utils/voxelConstants.ts) that turns JSON into shapes    *)
(* and drives the engine: the background fetch, the JSON import and the    *)
(* autopilot's effect and timeouts.                                        *)
(*                                                                         *)
(* Numbers.  The engine computes with IEEE doubles.  Here every length,    *)
(* velocity and angle is an integer count of 1/Scale units, and a product  *)
(* with a decimal factor is rounded to the nearest such unit (MulR).       *)
(* Colours are 8-bit RGB triples.  A delay is kept in units of             *)
(* 1/DelayDen milliseconds, so that (y - FLOOR_Y) / 15 * 800 is exact.     *)
(* Math.random() is a choice among the draws of a seed (Seeds).            *)
(***************************************************************************)
EXTENDS Integers, Sequences, FiniteSets, TLC

VARIABLES
    state,             \* this.state
    voxels,            \* this.voxels
    rebuildTargets,    \* this.rebuildTargets
    rebuildStartTime,  \* this.rebuildStartTime (ms)
    now,               \* the value Date.now() returns (ms)
    stateNotified,     \* last argument handed to onStateChange ("NONE" before the first call)
    stateCalls,        \* number of onStateChange calls so far
    countNotified,     \* last argument handed to onCountChange (-1 before the first call)
    lastOp,            \* the operation that ran last, with its arguments
    pre,               \* the engine fields as they were when lastOp began
    cmds,              \* number of external commands issued so far
    nextModelRef,      \* nextModelRef.current of the App
    fetchInProgress,   \* fetchInProgress.current
    consecutiveFailures, \* consecutiveFailures.current
    lastRaw,           \* the JSON handed last to the import or returned last to the fetch
    apiKey,            \* whether process.env.API_KEY holds a key
    requests,          \* generateContent calls that have not settled yet
    appState,          \* appState of the render the autopilot effect ran in last
    timeout            \* the callback the autopilot effect's timeout will run

engineVars == <<state, voxels, rebuildTargets, rebuildStartTime, now,
                stateNotified, stateCalls, countNotified, lastOp, pre, cmds>>

fetchVars == <<nextModelRef, fetchInProgress, consecutiveFailures, lastRaw, apiKey, requests>>

appVars == <<nextModelRef, fetchInProgress, consecutiveFailures, lastRaw, apiKey, requests,
             appState, timeout>>

vars == <<state, voxels, rebuildTargets, rebuildStartTime, now,
          stateNotified, stateCalls, countNotified, lastOp, pre, cmds,
          nextModelRef, fetchInProgress, consecutiveFailures, lastRaw, apiKey, requests,
          appState, timeout>>

----------------------------------------------------------------------------
(* Bounds of the model *)

\* external commands (load, click, dismantle, rebuild) issued in one run
MaxCommands == 3

\* milliseconds between two animation frames
FrameMs == 17

\* JSON imports made in one run of the App
MaxImports == 1

----------------------------------------------------------------------------
(* Numbers *)

Scale == 1000

FLOOR_Y == -12 * Scale

\* a * p / q rounded to the nearest integer (halves go up), q > 0
MulR(a, p, q) == (2 * a * p + q) \div (2 * q)

\* Math.round of a length: the nearest whole unit, halves go up
MathRound(a) == (2 * a + Scale) \div (2 * Scale)

Abs(a) == IF a < 0 THEN -a ELSE a

Max(a, b) == IF a >= b THEN a ELSE b

Min(a, b) == IF a <= b THEN a ELSE b

Range(n) == 1..n

----------------------------------------------------------------------------
(* Inputs *)

AppStates == {"STABLE", "DISMANTLING", "REBUILDING"}

\* COLORS of voxelConstants.ts, as 0xRRGGBB
DARK == 4863784

GOLD == 16766720

CYAN == 58879

WHITE == 16316922

Vox(px, py, pz, c) == [x |-> px, y |-> py, z |-> pz, color |-> c]

\* Shapes handed to loadInitialModel (VoxelData[], whole units)
FourParticles ==
    << Vox(0, -12, 0, DARK), Vox(1, -12, 0, GOLD), Vox(0, -11, 0, CYAN), Vox(5, -11, 0, WHITE) >>

RaisedTower ==
    << Vox(0, -11, 0, DARK), Vox(0, -10, 0, GOLD), Vox(5, -10, 0, GOLD) >>

\* two particles in one grid cell, on top of a particle on the ground; the
\* second and the fourth particle get the same colour, jitter included
SharedCell ==
    << Vox(0, -11, 0, DARK), Vox(0, -10, 0, GOLD), Vox(0, -10, 0, CYAN), Vox(5, -11, 0, GOLD) >>

Shapes == { FourParticles, RaisedTower, SharedCell, << >> }

\* Target lists handed to rebuild (VoxelData[], whole units)
TwoTargets == << Vox(0, -12, 0, WHITE), Vox(0, -10, 0, DARK) >>

FiveTargets ==
    << Vox(0, -12, 0, GOLD), Vox(1, -12, 0, GOLD), Vox(0, -11, 0, DARK),
       Vox(1, -11, 0, CYAN), Vox(0, -10, 0, GOLD) >>

TargetModels == { << >>, TwoTargets, FiveTargets }

\* Math.random(): the k-th draw made for particle id under a seed, in 1/1000.
\* Draws 2 and 8 scale an upward speed, the others are centred on 0.5.
Seeds == {0, 1}

Random(seed, id, k) ==
    IF k \in {2, 8} THEN 50 * ((id + seed) % 2)
    ELSE IF seed = 0 THEN 500 - 100 * (1 + ((id + k) % 2))
    ELSE 500 + 100 * (1 + ((id + k) % 2))

\* (Math.random() - 0.5) * f and Math.random() * f, f in 1/10, result in 1/Scale
Centered(r, f) == MulR((r - 500) * f, Scale, 10000)

Scaled(r, f) == MulR(r * f, Scale, 10000)

----------------------------------------------------------------------------
(* Colours *)

ColorOf(hex) == << (hex \div 65536) % 256, (hex \div 256) % 256, hex % 256 >>

Clamp255(a) == Max(0, Min(255, a))

\* c.offsetHSL(0, 0, Math.random() * 0.04 - 0.02): a lightness shift of at most
\* 2%, applied here to the three channels alike
Jitter(c, r) ==
    LET j == MulR((r - 500) * 255, 4, 100000)
    IN  << Clamp255(c[1] + j), Clamp255(c[2] + j), Clamp255(c[3] + j) >>

\* getColorDist squared, times (100 * 255)^2 : the weights are 0.3, 0.59, 0.11
ColorDistSq(c1, hex2) ==
    LET c2 == ColorOf(hex2)
        r == (c1[1] - c2[1]) * 30
        g == (c1[2] - c2[2]) * 59
        b == (c1[3] - c2[3]) * 11
    IN  r * r + g * g + b * b

\* d < 0.01 on that scale: (0.01 * 100 * 255)^2
NearExactSq == 255 * 255

----------------------------------------------------------------------------
(* Voxel store *)

\* a particle whose id counts from 1
NewVoxel_IdFromOne(d, i, seed) ==
    [ id |-> i + 1,
      x |-> d.x * Scale, y |-> d.y * Scale, z |-> d.z * Scale,
      color |-> Jitter(ColorOf(d.color), Random(seed, i, 0)),
      vx |-> 0, vy |-> 0, vz |-> 0, rx |-> 0, ry |-> 0, rz |-> 0,
      rvx |-> 0, rvy |-> 0, rvz |-> 0,
      isFalling |-> FALSE, grounded |-> TRUE ]

\* createVoxels: one particle per record, id = slot index (0-based)
NewVoxel(d, i, seed) ==
    [ id |-> i,
      x |-> d.x * Scale, y |-> d.y * Scale, z |-> d.z * Scale,
      color |-> Jitter(ColorOf(d.color), Random(seed, i, 0)),
      vx |-> 0, vy |-> 0, vz |-> 0, rx |-> 0, ry |-> 0, rz |-> 0,
      rvx |-> 0, rvy |-> 0, rvz |-> 0,
      isFalling |-> FALSE, grounded |-> TRUE ]

createVoxels(data, seed) == [ i \in Range(Len(data)) |-> NewVoxel(data[i], i - 1, seed) ]

\* triggerFalling that leaves grounded as it was
triggerFalling_KeepsGrounded(v, seed) ==
    IF v.isFalling THEN v
    ELSE [ v EXCEPT !.isFalling = TRUE,
                    !.vx = Centered(Random(seed, v.id, 1), 5),
                    !.vy = Scaled(Random(seed, v.id, 2), 3),
                    !.vz = Centered(Random(seed, v.id, 3), 5),
                    !.rvx = Centered(Random(seed, v.id, 4), 3),
                    !.rvy = Centered(Random(seed, v.id, 5), 3),
                    !.rvz = Centered(Random(seed, v.id, 6), 3) ]

\* triggerFalling applied to one particle
triggerFalling(v, seed) ==
    IF v.isFalling THEN v
    ELSE [ v EXCEPT !.isFalling = TRUE, !.grounded = FALSE,
                    !.vx = Centered(Random(seed, v.id, 1), 5),
                    !.vy = Scaled(Random(seed, v.id, 2), 3),
                    !.vz = Centered(Random(seed, v.id, 3), 5),
                    !.rvx = Centered(Random(seed, v.id, 4), 3),
                    !.rvy = Centered(Random(seed, v.id, 5), 3),
                    !.rvz = Centered(Random(seed, v.id, 6), 3) ]

----------------------------------------------------------------------------
(* Structural integrity *)

Cell(v) == << MathRound(v.x), MathRound(v.y), MathRound(v.z) >>

Neighbors == { <<1,0,0>>, <<-1,0,0>>, <<0,1,0>>, <<0,-1,0>>, <<0,0,1>>, <<0,0,-1>> }

\* anchors with a tolerance of 0.2 in place of 1.2
Anchors_Tight(vs) ==
    { i \in DOMAIN vs : ~vs[i].isFalling /\ vs[i].y <= FLOOR_Y + MulR(2, Scale, 10) }

\* the ground anchors: not falling and y <= FLOOR_Y + 1.2
Anchors(vs) ==
    { i \in DOMAIN vs : ~vs[i].isFalling /\ vs[i].y <= FLOOR_Y + MulR(12, Scale, 10) }

\* voxelMap.get(key): the last non-falling particle written under the key
VoxelMapGet(vs, key) ==
    LET at == { i \in DOMAIN vs : ~vs[i].isFalling /\ Cell(vs[i]) = key }
    IN  IF at = {} THEN 0 ELSE CHOOSE i \in at : \A j \in at : j <= i

\* the breadth-first traversal: the set of particles marked grounded at the end
RECURSIVE Traverse(_, _)
Traverse(vs, reached) ==
    LET found == { n \in DOMAIN vs :
                     /\ n \notin reached
                     /\ \E i \in reached : \E d \in Neighbors :
                           LET c == Cell(vs[i])
                           IN  VoxelMapGet(vs, << c[1] + d[1], c[2] + d[2], c[3] + d[3] >>) = n }
    IN  IF found = {} THEN reached ELSE Traverse(vs, reached \cup found)

\* an integrity pass that grounds what the traversal finds, but not the anchors
checkStructuralIntegrity_AnchorsUnmarked(vs, seed) ==
    LET reached == Traverse(vs, Anchors(vs)) \ Anchors(vs)
        marked == [ i \in DOMAIN vs |-> [ vs[i] EXCEPT !.grounded = (i \in reached) ] ]
    IN  [ i \in DOMAIN vs |->
            IF ~marked[i].isFalling /\ ~marked[i].grounded
            THEN triggerFalling(marked[i], seed)
            ELSE marked[i] ]

checkStructuralIntegrity(vs, seed) ==
    LET reached == Traverse(vs, Anchors(vs))
        marked == [ i \in DOMAIN vs |-> [ vs[i] EXCEPT !.grounded = (i \in reached) ] ]
    IN  [ i \in DOMAIN vs |->
            IF ~marked[i].isFalling /\ ~marked[i].grounded
            THEN triggerFalling(marked[i], seed)
            ELSE marked[i] ]


----------------------------------------------------------------------------
(* Rebuild planner *)

\* let bestDist = 9999: above every colour distance (at most 0.68)
BestDistInit == 2147483647

\* a scan without the early break: the minimum over the whole pool
RECURSIVE Scan_NoEarlyBreak(_, _, _, _, _, _)
Scan_NoEarlyBreak(vs, taken, hex, i, bestDist, bestIdx) ==
    IF i > Len(vs) THEN bestIdx
    ELSE IF i \in taken THEN Scan_NoEarlyBreak(vs, taken, hex, i + 1, bestDist, bestIdx)
    ELSE LET d == ColorDistSq(vs[i].color, hex)
         IN  IF d < bestDist
             THEN Scan_NoEarlyBreak(vs, taken, hex, i + 1, d, i)
             ELSE Scan_NoEarlyBreak(vs, taken, hex, i + 1, bestDist, bestIdx)

\* the scan of one target over the pool, from pool index i on: the particle
\* chosen (bestIdx), 0 when every particle is taken
RECURSIVE Scan(_, _, _, _, _, _)
Scan(vs, taken, hex, i, bestDist, bestIdx) ==
    IF i > Len(vs) THEN bestIdx
    ELSE IF i \in taken THEN Scan(vs, taken, hex, i + 1, bestDist, bestIdx)
    ELSE LET d == ColorDistSq(vs[i].color, hex)
         IN  IF d < bestDist
             THEN IF d < NearExactSq THEN i
                  ELSE Scan(vs, taken, hex, i + 1, d, i)
             ELSE Scan(vs, taken, hex, i + 1, bestDist, bestIdx)

\* delay = max(0, (target.y - FLOOR_Y) / 15) * 800 ms, in 1/DelayDen ms
DelayDen == 15 * Scale

\* a delay measured downward from height -10: the top of the shape starts first
Delay_FromTop(ty) == Max(0, -10 * Scale - ty * Scale) * 800

Delay(ty) == Max(0, ty * Scale - FLOOR_Y) * 800

Matched(t) == [ x |-> t.x * Scale, y |-> t.y * Scale, z |-> t.z * Scale,
                isRubble |-> FALSE, delay |-> Delay(t.y) ]

Rubble(v) == [ x |-> v.x, y |-> v.y, z |-> v.z, isRubble |-> TRUE, delay |-> 0 ]

\* a planner that never marks a particle taken
RECURSIVE Picks_NeverTaken(_, _, _, _)
Picks_NeverTaken(vs, targetModel, k, taken) ==
    IF k > Len(targetModel) THEN << >>
    ELSE << Scan(vs, taken, targetModel[k].color, 1, BestDistInit, 0) >>
             \o Picks_NeverTaken(vs, targetModel, k + 1, taken)

\* targetModel.forEach: picks[k] is the particle given to target k (0: none)
RECURSIVE Picks(_, _, _, _)
Picks(vs, targetModel, k, taken) ==
    IF k > Len(targetModel) THEN << >>
    ELSE LET best == Scan(vs, taken, targetModel[k].color, 1, BestDistInit, 0)
         IN  << best >> \o Picks(vs, targetModel, k + 1,
                                 IF best = 0 THEN taken ELSE taken \cup {best})

\* the mappings array: the target written last for a particle, else rubble
Mappings(vs, targetModel) ==
    LET picks == Picks(vs, targetModel, 1, {})
    IN  [ i \in DOMAIN vs |->
            LET ks == { k \in DOMAIN picks : picks[k] = i }
            IN  IF ks = {} THEN Rubble(vs[i])
                ELSE Matched(targetModel[CHOOSE k \in ks : \A j \in ks : j <= k]) ]

----------------------------------------------------------------------------
(* Physics step *)

\* (t.x - v.x)^2 + (t.y - v.y)^2 + (t.z - v.z)^2 > 0.01
Apart(dx, dy, dz) ==
    LET lim == MulR(1, Scale, 10)
    IN  \/ Abs(dx) > lim \/ Abs(dy) > lim \/ Abs(dz) > lim
        \/ dx * dx + dy * dy + dz * dz > lim * lim

Gated(t, elapsed) == elapsed * DelayDen < t.delay

\* v += (t - v) * 0.12
Ease(a, b) == a + MulR(b - a, 12, 100)

Eased(v, t) ==
    [ v EXCEPT !.x = Ease(v.x, t.x), !.y = Ease(v.y, t.y), !.z = Ease(v.z, t.z),
               !.rx = Ease(v.rx, 0), !.ry = Ease(v.ry, 0), !.rz = Ease(v.rz, 0) ]

Snapped(v, t) ==
    [ v EXCEPT !.x = t.x, !.y = t.y, !.z = t.z, !.rx = 0, !.ry = 0, !.rz = 0,
               !.isFalling = FALSE, !.grounded = TRUE,
               !.vx = 0, !.vy = 0, !.vz = 0 ]

\* a REBUILDING branch in which rubble keeps falling
Converge_RubbleFalls(v, t, elapsed) ==
    IF t.isRubble THEN
        IF ~v.isFalling THEN v
        ELSE [ v EXCEPT !.vy = v.vy - MulR(52, Scale, 1000),
                        !.y = Max(FLOOR_Y + MulR(5, Scale, 10), v.y + v.vy - MulR(52, Scale, 1000)) ]
    ELSE IF Gated(t, elapsed) THEN v
    ELSE LET e == Eased(v, t)
         IN  IF Apart(t.x - e.x, t.y - e.y, t.z - e.z) THEN e ELSE Snapped(e, t)

\* one particle of the REBUILDING branch
Converge(v, t, elapsed) ==
    IF t.isRubble \/ Gated(t, elapsed) THEN v
    ELSE LET e == Eased(v, t)
         IN  IF Apart(t.x - e.x, t.y - e.y, t.z - e.z) THEN e ELSE Snapped(e, t)

\* a delay branch that forgets allDone = false
Done_IgnoresDelay(v, t, elapsed) ==
    \/ t.isRubble
    \/ Gated(t, elapsed)
    \/ LET e == Eased(v, t) IN ~Apart(t.x - e.x, t.y - e.y, t.z - e.z)

\* a completion check that waits for rubble as well
Done_RubbleBlocks(v, t, elapsed) ==
    /\ ~t.isRubble
    /\ ~Gated(t, elapsed)
    /\ LET e == Eased(v, t) IN ~Apart(t.x - e.x, t.y - e.y, t.z - e.z)

\* the particle leaves allDone true
Done(v, t, elapsed) ==
    \/ t.isRubble
    \/ /\ ~Gated(t, elapsed)
       /\ LET e == Eased(v, t) IN ~Apart(t.x - e.x, t.y - e.y, t.z - e.z)

\* a floor collision whose rest snap puts the particle back on the ground
Bounce_ComesToRest(v) ==
    LET b == [ v EXCEPT !.y = FLOOR_Y + MulR(5, Scale, 10),
                        !.vy = MulR(v.vy, -42, 100),
                        !.vx = MulR(v.vx, 75, 100), !.vz = MulR(v.vz, 75, 100),
                        !.rvx = MulR(v.rvx, 65, 100), !.rvy = MulR(v.rvy, 65, 100),
                        !.rvz = MulR(v.rvz, 65, 100) ]
        rest == MulR(5, Scale, 100)
    IN  IF Abs(b.vy) < rest /\ Abs(b.vx) < rest /\ Abs(b.vz) < rest
        THEN [ b EXCEPT !.vx = 0, !.vy = 0, !.vz = 0, !.rvx = 0, !.rvy = 0, !.rvz = 0,
                        !.isFalling = FALSE, !.grounded = TRUE ]
        ELSE b

\* a floor collision that reflects the vertical velocity in full
Bounce_Elastic(v) ==
    LET b == [ v EXCEPT !.y = FLOOR_Y + MulR(5, Scale, 10),
                        !.vy = -v.vy,
                        !.vx = MulR(v.vx, 75, 100), !.vz = MulR(v.vz, 75, 100),
                        !.rvx = MulR(v.rvx, 65, 100), !.rvy = MulR(v.rvy, 65, 100),
                        !.rvz = MulR(v.rvz, 65, 100) ]
        rest == MulR(5, Scale, 100)
    IN  IF Abs(b.vy) < rest /\ Abs(b.vx) < rest /\ Abs(b.vz) < rest
        THEN [ b EXCEPT !.vx = 0, !.vy = 0, !.vz = 0, !.rvx = 0, !.rvy = 0, !.rvz = 0 ]
        ELSE b

\* floor collision of a particle already integrated
Bounce(v) ==
    LET b == [ v EXCEPT !.y = FLOOR_Y + MulR(5, Scale, 10),
                        !.vy = MulR(v.vy, -42, 100),
                        !.vx = MulR(v.vx, 75, 100), !.vz = MulR(v.vz, 75, 100),
                        !.rvx = MulR(v.rvx, 65, 100), !.rvy = MulR(v.rvy, 65, 100),
                        !.rvz = MulR(v.rvz, 65, 100) ]
        rest == MulR(5, Scale, 100)
    IN  IF Abs(b.vy) < rest /\ Abs(b.vx) < rest /\ Abs(b.vz) < rest
        THEN [ b EXCEPT !.vx = 0, !.vy = 0, !.vz = 0, !.rvx = 0, !.rvy = 0, !.rvz = 0 ]
        ELSE b

\* a free-fall branch that applies the rest test in mid-air as well
Fall_RestsAnywhere(v) ==
    IF ~v.isFalling THEN v
    ELSE LET vy1 == v.vy - MulR(52, Scale, 1000)
             m == [ v EXCEPT !.vy = vy1,
                             !.x = v.x + v.vx, !.y = v.y + vy1, !.z = v.z + v.vz,
                             !.rx = v.rx + v.rvx, !.ry = v.ry + v.rvy, !.rz = v.rz + v.rvz ]
             rest == MulR(5, Scale, 100)
         IN  IF m.y < FLOOR_Y + MulR(5, Scale, 10) THEN Bounce(m)
             ELSE IF Abs(m.vy) < rest /\ Abs(m.vx) < rest /\ Abs(m.vz) < rest
                  THEN [ m EXCEPT !.vx = 0, !.vy = 0, !.vz = 0, !.rvx = 0, !.rvy = 0, !.rvz = 0 ]
                  ELSE m

\* one particle of the free-fall branch
Fall(v) ==
    IF ~v.isFalling THEN v
    ELSE LET vy1 == v.vy - MulR(52, Scale, 1000)
             m == [ v EXCEPT !.vy = vy1,
                             !.x = v.x + v.vx, !.y = v.y + vy1, !.z = v.z + v.vz,
                             !.rx = v.rx + v.rvx, !.ry = v.ry + v.rvy, !.rz = v.rz + v.rvz ]
         IN  IF m.y < FLOOR_Y + MulR(5, Scale, 10) THEN Bounce(m) ELSE m


----------------------------------------------------------------------------
(* JSON values and their conversion to shapes (the App) *)

\* A JavaScript value as JSON.parse yields it in a field of a record: a number
\* (whole, or NaN), a string (a sequence of characters), null, or undefined
\* for a field that is missing.
JsUndefined == [ t |-> "undefined", n |-> 0, s |-> << >> ]

JsNull == [ t |-> "null", n |-> 0, s |-> << >> ]

JsNaN == [ t |-> "nan", n |-> 0, s |-> << >> ]

JsNum(k) == [ t |-> "number", n |-> k, s |-> << >> ]

JsStr(chars) == [ t |-> "string", n |-> 0, s |-> chars ]

\* typeof v
TypeOf(v) ==
    IF v.t \in {"number", "nan"} THEN "number"
    ELSE IF v.t = "null" THEN "object"
    ELSE v.t

\* the value counts as true in a condition
Truthy(v) ==
    \/ v.t = "number" /\ v.n # 0
    \/ v.t = "string" /\ v.s # << >>

\* a || b
Or(a, b) == IF Truthy(a) THEN a ELSE b

LowerHex == << "0", "1", "2", "3", "4", "5", "6", "7", "8", "9", "a", "b", "c", "d", "e", "f" >>

UpperHex == << "0", "1", "2", "3", "4", "5", "6", "7", "8", "9", "A", "B", "C", "D", "E", "F" >>

\* the value of a character as a digit of the base, -1 when it is not one
DigitVal(ch, base) ==
    LET at == { i \in 1..base : LowerHex[i] = ch \/ UpperHex[i] = ch }
    IN  IF at = {} THEN -1 ELSE (CHOOSE i \in at : TRUE) - 1

\* the number of leading spaces of chars from position i on
RECURSIVE Spaces(_, _)
Spaces(chars, i) ==
    IF i <= Len(chars) /\ chars[i] = " " THEN 1 + Spaces(chars, i + 1) ELSE 0

\* the digits of chars from position i on, read in the base: the number of
\* digits read (len) and their value (n)
RECURSIVE Digits(_, _, _, _, _)
Digits(chars, i, base, len, n) ==
    IF i <= Len(chars) /\ DigitVal(chars[i], base) >= 0
    THEN Digits(chars, i + 1, base, len + 1, n * base + DigitVal(chars[i], base))
    ELSE [ len |-> len, n |-> n ]

\* parseInt(chars, 16): leading spaces, a sign, a 0x prefix, then the longest
\* run of hex digits; NaN when there is no digit; what follows the run is ignored
ParseInt16(chars) ==
    LET i0 == 1 + Spaces(chars, 1)
        signed == i0 <= Len(chars) /\ chars[i0] \in {"-", "+"}
        i1 == IF signed THEN i0 + 1 ELSE i0
        prefixed == i1 + 1 <= Len(chars) /\ chars[i1] = "0" /\ chars[i1 + 1] \in {"x", "X"}
        i2 == IF prefixed THEN i1 + 2 ELSE i1
        d == Digits(chars, i2, 16, 0, 0)
    IN  IF d.len = 0 THEN JsNaN
        ELSE IF signed /\ chars[i0] = "-" THEN JsNum(-d.n) ELSE JsNum(d.n)

\* Number(v) for the values above.  Of the string forms the whole decimal
\* numbers are read (spaces around them trimmed, the empty string being 0);
\* fractions, exponents and 0x literals are not among the inputs.
ToNumber(v) ==
    IF v.t \in {"number", "nan"} THEN v
    ELSE IF v.t = "null" THEN JsNum(0)
    ELSE IF v.t = "undefined" THEN JsNaN
    ELSE LET i0 == 1 + Spaces(v.s, 1)
             signed == i0 <= Len(v.s) /\ v.s[i0] \in {"-", "+"}
             i1 == IF signed THEN i0 + 1 ELSE i0
             d == Digits(v.s, i1, 10, 0, 0)
             rest == i1 + d.len
         IN  IF i0 > Len(v.s) THEN JsNum(0)
             ELSE IF d.len = 0 \/ rest + Spaces(v.s, rest) <= Len(v.s) THEN JsNaN
             ELSE IF signed /\ v.s[i0] = "-" THEN JsNum(-d.n) ELSE JsNum(d.n)

\* Number(v) || 0
Coordinate(v) == Or(ToNumber(v), JsNum(0)).n

\* 0xCCCCCC
GRAY == 13421772

\* '#CCCCCC'
GrayString == << "#", "C", "C", "C", "C", "C", "C" >>

\* colorStr.startsWith('#') ? colorStr.substring(1) : colorStr
StripHash(chars) == IF chars # << >> /\ chars[1] = "#" THEN Tail(chars) ELSE chars

\* isNaN(colorInt) ? 0xCCCCCC : colorInt
ColorOrGray(colorInt) == IF colorInt.t = "nan" THEN GRAY ELSE colorInt.n

\* An element of a JSON array of records: an object with the fields x, y, z,
\* c, color (JsUndefined when missing), or null.
JsObject(px, py, pz, pc, pcolor) ==
    [ isNull |-> FALSE, x |-> px, y |-> py, z |-> pz, c |-> pc, color |-> pcolor ]

NullRecord ==
    [ isNull |-> TRUE, x |-> JsUndefined, y |-> JsUndefined, z |-> JsUndefined,
      c |-> JsUndefined, color |-> JsUndefined ]

\* the map callback of fetchNextModel raises a TypeError: a property of null is
\* read, or startsWith is called on a value that is not a string
FetchThrows(v) == v.isNull \/ (Truthy(v.color) /\ v.color.t # "string")

\* the record the map callback of fetchNextModel returns
FetchRecord(v) ==
    LET colorStr == IF Truthy(v.color) THEN v.color.s ELSE GrayString
    IN  Vox(Coordinate(v.x), Coordinate(v.y), Coordinate(v.z),
            ColorOrGray(ParseInt16(StripHash(colorStr))))

\* the map callback of handleJsonImport raises a TypeError
ImportThrows(v) == v.isNull

\* the record the map callback of handleJsonImport returns
ImportRecord(v) ==
    LET colorVal == Or(v.c, v.color)
        colorInt == IF TypeOf(colorVal) = "string" THEN ParseInt16(StripHash(colorVal.s))
                    ELSE IF TypeOf(colorVal) = "number" THEN colorVal
                    ELSE JsNum(GRAY)
    IN  Vox(Coordinate(v.x), Coordinate(v.y), Coordinate(v.z), ColorOrGray(colorInt))

\* A JSON text: not JSON at all ("invalid"), JSON without the array of records
\* ("other"), or an array of records ("array"); name is the name field of a
\* fetch result ("" when missing).
Json(kind, name, items) == [ kind |-> kind, name |-> name, items |-> items ]

NoJson == Json("none", "", << >>)

\* a JSON text with the way it came in: by the fetch or by the import
Raw(via, json) == [ via |-> via, kind |-> json.kind, name |-> json.name, items |-> json.items ]

\* nextModelRef.current: null, or { name, data }
NoModel == [ full |-> FALSE, name |-> "", data |-> << >> ]

Model(name, data) == [ full |-> TRUE, name |-> name, data |-> data ]

----------------------------------------------------------------------------
(* The engine *)

Snapshot ==
    [ state |-> state, voxels |-> voxels, rebuildTargets |-> rebuildTargets,
      rebuildStartTime |-> rebuildStartTime, now |-> now, stateCalls |-> stateCalls ]

\* the engine after its constructor (no particles, STABLE, no callback called
\* yet) and the App's state and references as useState and useRef create them
Created ==
    /\ state = "STABLE"
    /\ voxels = << >>
    /\ rebuildTargets = << >>
    /\ rebuildStartTime = 0
    /\ now = 0
    /\ stateNotified = "NONE"
    /\ stateCalls = 0
    /\ countNotified = -1
    /\ lastOp = [ op |-> "constructor" ]
    /\ pre = [ state |-> "STABLE", voxels |-> << >>, rebuildTargets |-> << >>,
               rebuildStartTime |-> 0, now |-> 0, stateCalls |-> 0 ]
    /\ cmds = 0
    /\ nextModelRef = NoModel
    /\ fetchInProgress = FALSE
    /\ consecutiveFailures = 0
    /\ lastRaw = Raw("none", NoJson)
    /\ requests = 0
    /\ appState = "STABLE"
    /\ timeout = "none"

\* the build has an API key
Init == Created /\ apiKey = TRUE

\* a state change that is not reported to onStateChange
SetState_Silent(s) ==
    /\ state' = s
    /\ UNCHANGED << stateNotified, stateCalls >>

\* this.state = s; this.onStateChange(this.state)
SetState(s) ==
    /\ state' = s
    /\ stateNotified' = s
    /\ stateCalls' = stateCalls + 1

loadInitialModel(data, seed) ==
    /\ cmds < MaxCommands
    /\ cmds' = cmds + 1
    /\ lastOp' = [ op |-> "load", data |-> data, seed |-> seed ]
    /\ pre' = Snapshot
    /\ voxels' = createVoxels(data, seed)
    /\ countNotified' = Len(data)
    /\ SetState("STABLE")
    /\ UNCHANGED << rebuildTargets, rebuildStartTime, now >>

\* a click whose ray hits instance index (1-based slot)
onMouseClick(index, seed) ==
    /\ cmds < MaxCommands
    /\ index \in DOMAIN voxels
    /\ cmds' = cmds + 1
    /\ pre' = Snapshot
    /\ IF state # "STABLE"
       THEN /\ lastOp' = [ op |-> "click" ]
            /\ UNCHANGED voxels
       ELSE /\ lastOp' = [ op |-> "click", index |-> index, seed |-> seed ]
            /\ voxels' = checkStructuralIntegrity(
                           [ voxels EXCEPT ![index] = triggerFalling(voxels[index], seed) ], seed)
    /\ UNCHANGED << state, stateNotified, stateCalls, countNotified,
                    rebuildTargets, rebuildStartTime, now >>

\* a scatter that kicks the particle without triggerFalling
Scatter_NoTrigger(v, seed) ==
    [ v EXCEPT !.vx = Centered(Random(seed, v.id, 7), 16),
               !.vy = Scaled(Random(seed, v.id, 8), 14),
               !.vz = Centered(Random(seed, v.id, 9), 16) ]

\* the forEach body of dismantle for one particle
Scatter(v, seed) ==
    [ triggerFalling(v, seed) EXCEPT !.vx = Centered(Random(seed, v.id, 7), 16),
                                     !.vy = Scaled(Random(seed, v.id, 8), 14),
                                     !.vz = Centered(Random(seed, v.id, 9), 16) ]

\* a dismantle without the STABLE guard
dismantle_Unguarded(seed) ==
    /\ cmds < MaxCommands
    /\ cmds' = cmds + 1
    /\ pre' = Snapshot
    /\ lastOp' = [ op |-> "dismantle", seed |-> seed ]
    /\ SetState("DISMANTLING")
    /\ voxels' = [ i \in DOMAIN voxels |->
                     [ triggerFalling(voxels[i], seed) EXCEPT
                         !.vx = Centered(Random(seed, voxels[i].id, 7), 16),
                         !.vy = Scaled(Random(seed, voxels[i].id, 8), 14),
                         !.vz = Centered(Random(seed, voxels[i].id, 9), 16) ] ]
    /\ UNCHANGED << countNotified, rebuildTargets, rebuildStartTime, now >>

dismantle(seed) ==
    /\ cmds < MaxCommands
    /\ cmds' = cmds + 1
    /\ pre' = Snapshot
    /\ IF state # "STABLE"
       THEN /\ lastOp' = [ op |-> "dismantle" ]
            /\ UNCHANGED << state, stateNotified, stateCalls, voxels >>
       ELSE /\ lastOp' = [ op |-> "dismantle", seed |-> seed ]
            /\ SetState("DISMANTLING")
            /\ voxels' = [ i \in DOMAIN voxels |-> Scatter(voxels[i], seed) ]
    /\ UNCHANGED << countNotified, rebuildTargets, rebuildStartTime, now >>

\* a rebuild that keeps the plan and the start time of a rebuild in progress
rebuild_KeepsEarlierPlan(targetModel) ==
    /\ cmds < MaxCommands
    /\ cmds' = cmds + 1
    /\ lastOp' = [ op |-> "rebuild", targetModel |-> targetModel ]
    /\ pre' = Snapshot
    /\ SetState("REBUILDING")
    /\ IF state = "REBUILDING"
       THEN UNCHANGED << rebuildTargets, rebuildStartTime >>
       ELSE /\ rebuildTargets' = Mappings(voxels, targetModel)
            /\ rebuildStartTime' = now
    /\ UNCHANGED << voxels, countNotified, now >>

rebuild(targetModel) ==
    /\ cmds < MaxCommands
    /\ cmds' = cmds + 1
    /\ lastOp' = [ op |-> "rebuild", targetModel |-> targetModel ]
    /\ pre' = Snapshot
    /\ SetState("REBUILDING")
    /\ rebuildTargets' = Mappings(voxels, targetModel)
    /\ rebuildStartTime' = now
    /\ UNCHANGED << voxels, countNotified, now >>

\* allDone at the end of the REBUILDING branch
AllDone(vs, ts, elapsed) == \A i \in DOMAIN vs : Done(vs[i], ts[i], elapsed)

\* the largest delay a target list of TargetModels can produce
MaxDelay ==
    LET ds == {0} \cup UNION { { Delay(tm[k].y) : k \in DOMAIN tm } : tm \in TargetModels }
    IN  CHOOSE d \in ds : \A e \in ds : e <= d

\* Date.now() at the next frame. The engine reads the clock only as
\* now - rebuildStartTime and only against a delay: the clock is advanced while
\* a delay can still gate, and the time that passes otherwise is left out.
NextFrame ==
    IF state = "REBUILDING" /\ (now - rebuildStartTime) * DelayDen < MaxDelay
    THEN now + FrameMs
    ELSE now

\* a frame that declares the scatter settled once every particle rests
updatePhysics_SettlesToStable ==
    /\ lastOp' = [ op |-> "step" ]
    /\ now' = NextFrame
    /\ pre' = [ Snapshot EXCEPT !.now = now' ]
    /\ IF state = "REBUILDING"
       THEN LET elapsed == now' - rebuildStartTime
            IN  /\ voxels' = [ i \in DOMAIN voxels |->
                                 Converge(voxels[i], rebuildTargets[i], elapsed) ]
                /\ IF AllDone(voxels, rebuildTargets, elapsed)
                   THEN SetState("STABLE")
                   ELSE UNCHANGED << state, stateNotified, stateCalls >>
       ELSE /\ voxels' = [ i \in DOMAIN voxels |-> Fall(voxels[i]) ]
            /\ IF state = "DISMANTLING" /\ voxels' = voxels
               THEN SetState("STABLE")
               ELSE UNCHANGED << state, stateNotified, stateCalls >>
    /\ UNCHANGED << countNotified, rebuildTargets, rebuildStartTime, cmds >>

\* one animation frame
updatePhysics ==
    /\ lastOp' = [ op |-> "step" ]
    /\ now' = NextFrame
    /\ pre' = [ Snapshot EXCEPT !.now = now' ]
    /\ IF state = "REBUILDING"
       THEN LET elapsed == now' - rebuildStartTime
            IN  /\ voxels' = [ i \in DOMAIN voxels |->
                                 Converge(voxels[i], rebuildTargets[i], elapsed) ]
                /\ IF AllDone(voxels, rebuildTargets, elapsed)
                   THEN SetState("STABLE")
                   ELSE UNCHANGED << state, stateNotified, stateCalls >>
       ELSE /\ voxels' = [ i \in DOMAIN voxels |-> Fall(voxels[i]) ]
            /\ UNCHANGED << state, stateNotified, stateCalls >>
    /\ UNCHANGED << countNotified, rebuildTargets, rebuildStartTime, cmds >>

\* the engine driven directly: the App's references stay as they are
Next ==
    \/ (\E data \in Shapes, seed \in Seeds : loadInitialModel(data, seed)) /\ UNCHANGED appVars
    \/ (\E index \in DOMAIN voxels, seed \in Seeds : onMouseClick(index, seed)) /\ UNCHANGED appVars
    \/ (\E seed \in Seeds : dismantle(seed)) /\ UNCHANGED appVars
    \/ (\E targetModel \in TargetModels : rebuild(targetModel)) /\ UNCHANGED appVars
    \/ updatePhysics /\ UNCHANGED appVars

Spec == Init /\ [][Next]_vars

\* requestAnimationFrame re-arms itself in every frame: frames never stop
LiveSpec == Spec /\ WF_vars(updatePhysics /\ UNCHANGED appVars)


----------------------------------------------------------------------------
(* The App: background fetch and JSON import *)

\* characters of colour strings
HashGold == << "#", "F", "F", "D", "7", "0", "0" >>

BareCyan == << "0", "0", "e", "5", "f", "f" >>

\* records as a generative model or an imported file may hold them
GoldRecord == JsObject(JsNum(0), JsNum(-12), JsNum(0), JsUndefined, JsStr(HashGold))

JsRecords ==
    { GoldRecord,
      JsObject(JsNum(1), JsNum(-12), JsNum(0), JsUndefined, JsStr(BareCyan)),
      JsObject(JsNum(1), JsUndefined, JsNum(0), JsUndefined, JsStr(HashGold)),
      JsObject(JsStr(<< "a", "b" >>), JsNum(-11), JsNaN, JsUndefined, JsStr(HashGold)),
      JsObject(JsStr(<< " ", "-", "3" >>), JsNum(-11), JsNull, JsUndefined, JsStr(HashGold)),
      JsObject(JsNum(1), JsNum(-11), JsNum(0), JsUndefined, JsUndefined),
      JsObject(JsNum(1), JsNum(-11), JsNum(0), JsUndefined, JsStr(<< "r", "e", "d" >>)),
      JsObject(JsNum(1), JsNum(-11), JsNum(0), JsUndefined, JsNum(GOLD)),
      JsObject(JsNum(1), JsNum(-11), JsNum(0), JsNum(CYAN), JsUndefined),
      NullRecord }

\* JSON texts: arrays of a sound record and one more record, the empty array,
\* JSON of another form, and text that is not JSON
JsonTexts ==
    { Json("array", "Sphinx", << GoldRecord, r >>) : r \in JsRecords }
        \cup { Json("array", "", << >>), Json("other", "", << >>), Json("invalid", "", << >>) }

\* what the await of generateContent ends with: a rejection, a response
\* without text, or a response text
Responses == JsonTexts \cup { Json("rejected", "", << >>), Json("empty", "", << >>) }

\* the shapes Generators.Cat, .Rabbit, .SpaceStation, .Twins return
LocalBlueprints == { FourParticles, RaisedTower }

\* the controller state as the owner of the callbacks holds it: STABLE until
\* onStateChange is first called, then the argument of the last call
Observed == IF stateCalls = 0 THEN "STABLE" ELSE stateNotified

\* fetchNextModel up to its await: the guard, the flag, the call of generateContent
Request ==
    IF ~apiKey \/ fetchInProgress
    THEN UNCHANGED << fetchInProgress, requests >>
    ELSE /\ fetchInProgress' = TRUE
         /\ requests' = requests + 1

\* a call of fetchNextModel by itself
fetchNextModel ==
    /\ Request
    /\ UNCHANGED << nextModelRef, consecutiveFailures, lastRaw, apiKey, appState, timeout >>
    /\ UNCHANGED engineVars

\* a fetch whose flag stays set when the response has no text
fetchSettled_FlagLeftOnEmpty(response) ==
    /\ requests > 0
    /\ requests' = requests - 1
    /\ lastRaw' = Raw("fetch", response)
    /\ IF response.kind = "empty"
       THEN UNCHANGED << nextModelRef, consecutiveFailures, fetchInProgress >>
       ELSE /\ fetchInProgress' = FALSE
            /\ IF response.kind = "array" /\ \A k \in DOMAIN response.items : ~FetchThrows(response.items[k])
               THEN /\ nextModelRef' = Model(IF response.name = "" THEN "AI Creation" ELSE response.name,
                                             [ k \in DOMAIN response.items |-> FetchRecord(response.items[k]) ])
                    /\ consecutiveFailures' = 0
               ELSE IF consecutiveFailures + 1 > 2
               THEN /\ \E data \in LocalBlueprints : nextModelRef' = Model("Local Blueprint", data)
                    /\ consecutiveFailures' = 0
               ELSE /\ consecutiveFailures' = consecutiveFailures + 1
                    /\ UNCHANGED nextModelRef
    /\ UNCHANGED << apiKey, appState, timeout >>
    /\ UNCHANGED engineVars

\* fetchNextModel from its await on: try, catch and finally
fetchSettled(response) ==
    /\ requests > 0
    /\ requests' = requests - 1
    /\ lastRaw' = Raw("fetch", response)
    /\ fetchInProgress' = FALSE
    /\ IF response.kind = "empty"
       THEN UNCHANGED << nextModelRef, consecutiveFailures >>
       ELSE IF response.kind = "array" /\ \A k \in DOMAIN response.items : ~FetchThrows(response.items[k])
       THEN /\ nextModelRef' = Model(IF response.name = "" THEN "AI Creation" ELSE response.name,
                                     [ k \in DOMAIN response.items |-> FetchRecord(response.items[k]) ])
            /\ consecutiveFailures' = 0
       ELSE IF consecutiveFailures + 1 > 2
       THEN /\ \E data \in LocalBlueprints : nextModelRef' = Model("Local Blueprint", data)
            /\ consecutiveFailures' = 0
       ELSE /\ consecutiveFailures' = consecutiveFailures + 1
            /\ UNCHANGED nextModelRef
    /\ UNCHANGED << apiKey, appState, timeout >>
    /\ UNCHANGED engineVars

\* handleJsonImport (engineRef.current is set)
handleJsonImport(json, seed) ==
    /\ cmds < MaxImports
    /\ lastRaw' = Raw("import", json)
    /\ IF json.kind = "array" /\ \A k \in DOMAIN json.items : ~ImportThrows(json.items[k])
       THEN loadInitialModel([ k \in DOMAIN json.items |-> ImportRecord(json.items[k]) ], seed)
       ELSE /\ cmds' = cmds + 1
            /\ lastOp' = [ op |-> "importFailed" ]
            /\ pre' = Snapshot
            /\ UNCHANGED << state, voxels, rebuildTargets, rebuildStartTime, now,
                            stateNotified, stateCalls, countNotified >>
    /\ UNCHANGED << nextModelRef, fetchInProgress, consecutiveFailures, apiKey, requests,
                    appState, timeout >>

\* the App turning JSON into shapes
AppNext ==
    \/ fetchNextModel
    \/ \E response \in Responses : fetchSettled(response)
    \/ \E json \in JsonTexts, seed \in Seeds : handleJsonImport(json, seed)

AppSpec == Init /\ [][AppNext]_vars

----------------------------------------------------------------------------
(* The App: autopilot (isAutopilot stays true)                             *)

\* what the await of generateContent ends with in the autopilot runs
AutoResponses ==
    { Json("rejected", "", << >>), Json("empty", "", << >>),
      Json("array", "Sphinx", << GoldRecord, GoldRecord >>) }

\* runCycle in the closure of a render whose appState is s: the callback its
\* timeout is left with
Armed(s) ==
    IF s = "STABLE" THEN "dismantle"
    ELSE IF s = "DISMANTLING" THEN "rebuild"
    ELSE "none"

\* the autopilot effect: clearTimeout of the effect before it, then runCycle
\* in the closure of the render that commits appState s
Effect(s) ==
    /\ appState' = s
    /\ timeout' = Armed(s)
    /\ IF s = "STABLE" /\ ~nextModelRef.full /\ ~fetchInProgress
       THEN Request
       ELSE UNCHANGED << fetchInProgress, requests >>
    /\ UNCHANGED << nextModelRef, consecutiveFailures, lastRaw, apiKey >>

\* the effects of the first render: the engine (created already) is given the
\* first shape, then the autopilot effect runs with appState STABLE
mount(data, seed) ==
    /\ cmds = 0
    /\ loadInitialModel(data, seed)
    /\ Effect("STABLE")

\* a later render (setAppState or setCycleSpeed made a dependency differ): it
\* commits the state handed last to setAppState and runs the effect again
render ==
    /\ cmds > 0
    /\ Effect(Observed)
    /\ UNCHANGED engineVars

\* the timeout armed in STABLE fires
dismantleTimeout(seed) ==
    /\ timeout = "dismantle"
    /\ timeout' = "none"
    /\ dismantle(seed)
    /\ UNCHANGED << fetchVars, appState >>

\* the timeout armed in DISMANTLING fires
rebuildTimeout ==
    /\ timeout = "rebuild"
    /\ IF nextModelRef.full
       THEN /\ nextModelRef' = NoModel
            /\ rebuild(nextModelRef.data)
            /\ timeout' = "none"
            /\ UNCHANGED << fetchInProgress, requests >>
       ELSE /\ IF ~fetchInProgress
               THEN Request
               ELSE UNCHANGED << fetchInProgress, requests >>
            /\ timeout' = Armed("DISMANTLING")
            /\ UNCHANGED nextModelRef
            /\ UNCHANGED engineVars
    /\ UNCHANGED << consecutiveFailures, lastRaw, apiKey, appState >>

AutoNext ==
    \/ \E data \in LocalBlueprints, seed \in Seeds : mount(data, seed)
    \/ render
    \/ \E seed \in Seeds : dismantleTimeout(seed)
    \/ rebuildTimeout
    \/ \E response \in AutoResponses : fetchSettled(response)
    \/ updatePhysics /\ UNCHANGED appVars

\* the build may or may not have an API key
AutoInit == Created /\ apiKey \in BOOLEAN

\* <<rebuildTimeout>>_vars is enabled: the callback is armed, and it either has
\* a model to hand to rebuild or starts a request
rebuildTimeoutEnabled ==
    /\ timeout = "rebuild"
    /\ IF nextModelRef.full THEN cmds < MaxCommands ELSE apiKey /\ ~fetchInProgress

\* <<fetchSettled(response)>>_vars is enabled: a request is pending
fetchSettledEnabled == requests > 0

\* Timers fire, renders are committed, frames keep coming, and every request
\* made settles: weak fairness of the five steps.  For the two steps that
\* compute a shape, weak fairness is written out by its definition, with the
\* enabling condition as the state predicate above.
AutoSpec ==
    /\ AutoInit
    /\ [][AutoNext]_vars
    /\ WF_vars(render)
    /\ WF_vars(\E seed \in Seeds : dismantleTimeout(seed))
    /\ WF_vars(updatePhysics /\ UNCHANGED appVars)
    /\ ([]<>~rebuildTimeoutEnabled \/ []<><<rebuildTimeout>>_vars)
    /\ ([]<>~fetchSettledEnabled
           \/ []<><<\E response \in AutoResponses : fetchSettled(response)>>_vars)

----------------------------------------------------------------------------
(* Vocabulary of the properties *)

Elapsed(p) == p.now - p.rebuildStartTime

AnchorHeight == FLOOR_Y + MulR(12, Scale, 10)

AtTarget(v, t) == v.x = t.x /\ v.y = t.y /\ v.z = t.z

Supported(v) == ~v.isFalling /\ v.grounded

Collapsing(v) == v.isFalling /\ ~v.grounded

\* the last operation was a click that ran the knock-out, on a freshly loaded shape
KnockedOut(data, index) ==
    /\ lastOp.op = "click"
    /\ pre.state = "STABLE"
    /\ lastOp.index = index
    /\ \E seed \in Seeds : pre.voxels = createVoxels(data, seed)

\* a lies between b and c
Between(a, b, c) == (b <= a /\ a <= c) \/ (c <= a /\ a <= b)

----------------------------------------------------------------------------
(* C1: in every reachable state no particle has isFalling = true and       *)
(* grounded = true at the same time.                                       *)
C1_NeverFallingAndGrounded ==
    \A i \in DOMAIN voxels : ~(voxels[i].isFalling /\ voxels[i].grounded)

\* a knock-out has left a falling particle next to a grounded one, and a step ran
C1_Witness ==
    /\ lastOp.op = "step"
    /\ \E i \in DOMAIN voxels : Collapsing(voxels[i]) /\ voxels[i].vy # 0
    /\ \E i \in DOMAIN voxels : Supported(voxels[i])

(* C2, as claimed: with the four particles at (0,-12,0), (1,-12,0),        *)
(* (0,-11,0), (5,-11,0) loaded, knocking out (0,-12,0) makes the particle  *)
(* at (0,-11,0) and the particle at (5,-11,0) fall.                        *)
C2_AsClaimed ==
    KnockedOut(FourParticles, 1) => voxels[3].isFalling /\ voxels[4].isFalling

(* C2, amended: in that scenario the particles at (0,-11,0) and (5,-11,0)  *)
(* stay supported, since at height -11 <= FLOOR_Y + 1.2 they are ground    *)
(* anchors; the upper particle of a two-high tower falls once the lower is *)
(* knocked out when it lies above FLOOR_Y + 1.2: with (0,-11,0),           *)
(* (0,-10,0), (5,-10,0) loaded, knocking out (0,-11,0) makes (0,-10,0) and *)
(* the isolated (5,-10,0) fall.                                            *)
C2_AnchorsHoldTowerAboveFalls ==
    /\ KnockedOut(FourParticles, 1) =>
          /\ Collapsing(voxels[1])
          /\ Supported(voxels[3]) /\ Supported(voxels[4])
    /\ KnockedOut(RaisedTower, 1) =>
          /\ Collapsing(voxels[1])
          /\ Collapsing(voxels[2]) /\ Collapsing(voxels[3])

C2_Witness ==
    /\ KnockedOut(FourParticles, 1)
    /\ voxels[1].isFalling
    /\ voxels[3].y = -11 * Scale /\ voxels[4].y = -11 * Scale

(* C3: after a knock-out and its integrity pass, every other particle that *)
(* was not falling and lies at height <= FLOOR_Y + 1.2 is still not        *)
(* falling and grounded.                                                   *)
C3_AnchorsStayGrounded ==
    (lastOp.op = "click" /\ pre.state = "STABLE") =>
        \A i \in DOMAIN voxels :
            (i # lastOp.index /\ ~pre.voxels[i].isFalling /\ pre.voxels[i].y <= AnchorHeight)
                => Supported(voxels[i])

\* the neighbour (1,-12,0) of the knocked-out (0,-12,0) is still grounded
C3_Witness ==
    /\ KnockedOut(FourParticles, 1)
    /\ voxels[1].isFalling
    /\ voxels[2].y = FLOOR_Y /\ Supported(voxels[2])


----------------------------------------------------------------------------
(* The REBUILDING step *)

SteppedRebuilding == lastOp.op = "step" /\ pre.state = "REBUILDING"

\* particle i is matched and sits on its target, not falling and grounded
Arrived(i) ==
    /\ ~pre.rebuildTargets[i].isRubble
    /\ AtTarget(voxels[i], pre.rebuildTargets[i])
    /\ Supported(voxels[i])

\* particle i was held back by its delay in the step
Waiting(i) ==
    /\ ~pre.rebuildTargets[i].isRubble
    /\ Elapsed(pre) * DelayDen < pre.rebuildTargets[i].delay

(* C4: a step taken in REBUILDING moves the controller to STABLE if and    *)
(* only if at the end of the step every non-rubble particle has snapped to *)
(* its target (delay elapsed, position equal to the target, not falling,   *)
(* grounded); a particle held back by its delay or still away from its     *)
(* target blocks the transition, rubble never does.                        *)
C4_StableIffAllMatchedSnapped ==
    SteppedRebuilding =>
        ( state = "STABLE" <=>
            \A i \in DOMAIN voxels :
                pre.rebuildTargets[i].isRubble \/ (~Waiting(i) /\ Arrived(i)) )

\* the step that completed a rebuild with a matched particle and a rubble one
C4_Witness ==
    /\ SteppedRebuilding
    /\ state = "STABLE"
    /\ \E i \in DOMAIN voxels : Arrived(i) /\ ~AtTarget(pre.voxels[i], pre.rebuildTargets[i])
    /\ \E i \in DOMAIN voxels : pre.rebuildTargets[i].isRubble /\ voxels[i].isFalling

(* C5: once rebuild has been called, if frames keep coming the controller  *)
(* eventually reaches STABLE, whatever the particle set and target list.   *)
C5_RebuildEventuallyStable == (state = "REBUILDING") ~> (state = "STABLE")

\* a rebuild that completed with every particle matched and arrived
C5_Witness ==
    /\ SteppedRebuilding
    /\ state = "STABLE"
    /\ Len(voxels) > 0
    /\ \A i \in DOMAIN voxels : Arrived(i)

(* C6: dismantle() called while STABLE moves the controller to DISMANTLING *)
(* and leaves every particle falling and not grounded, also those already  *)
(* falling from an earlier knock-out.                                      *)
C6_DismantleScattersAll ==
    (lastOp.op = "dismantle" /\ pre.state = "STABLE") =>
        /\ state = "DISMANTLING"
        /\ Len(voxels) = Len(pre.voxels)
        /\ \A i \in DOMAIN voxels : Collapsing(voxels[i])

\* a dismantle over a particle that a knock-out had already set falling
C6_Witness ==
    /\ lastOp.op = "dismantle"
    /\ pre.state = "STABLE"
    /\ \E i \in DOMAIN pre.voxels : pre.voxels[i].isFalling
    /\ \E i \in DOMAIN pre.voxels : ~pre.voxels[i].isFalling

(* C7: dismantle() called while DISMANTLING or REBUILDING changes nothing: *)
(* state, particles, assignment and start time stay, no callback is made.  *)
C7_DismantleNoOpUnlessStable ==
    (lastOp.op = "dismantle" /\ pre.state # "STABLE") =>
        /\ state = pre.state
        /\ voxels = pre.voxels
        /\ rebuildTargets = pre.rebuildTargets
        /\ rebuildStartTime = pre.rebuildStartTime
        /\ stateCalls = pre.stateCalls
        /\ stateNotified = pre.state

\* a dismantle issued in the middle of a rebuild
C7_Witness ==
    /\ lastOp.op = "dismantle"
    /\ pre.state = "REBUILDING"
    /\ \E i \in DOMAIN voxels : ~rebuildTargets[i].isRubble /\ ~AtTarget(voxels[i], rebuildTargets[i])

(* C8: the controller state changes only by dismantle() in STABLE (to      *)
(* DISMANTLING), by rebuild() (to REBUILDING), by a REBUILDING step in     *)
(* which all matched particles have converged (to STABLE) and by a load    *)
(* (to STABLE); a knock-out, and a step in STABLE or DISMANTLING, never    *)
(* change it.                                                              *)
C8_StateChangesOnlyByEvents ==
    /\ state # pre.state =>
          \/ lastOp.op = "dismantle" /\ pre.state = "STABLE" /\ state = "DISMANTLING"
          \/ lastOp.op = "rebuild" /\ state = "REBUILDING"
          \/ /\ SteppedRebuilding /\ state = "STABLE"
             /\ \A i \in DOMAIN voxels : pre.rebuildTargets[i].isRubble \/ Arrived(i)
          \/ lastOp.op = "load" /\ state = "STABLE"
    /\ lastOp.op = "click" => state = pre.state
    /\ lastOp.op = "step" /\ pre.state # "REBUILDING" => state = pre.state
    /\ lastOp.op = "rebuild" => state = "REBUILDING"
    /\ lastOp.op = "load" => state = "STABLE"

\* a step in DISMANTLING after every scattered particle has come to rest
C8_Witness ==
    /\ lastOp.op = "step"
    /\ state = "DISMANTLING"
    /\ Len(voxels) > 1
    /\ voxels = pre.voxels
    /\ \A i \in DOMAIN voxels :
          voxels[i].vx = 0 /\ voxels[i].vy = 0 /\ voxels[i].vz = 0


----------------------------------------------------------------------------
(* The plan of a rebuild *)

Rebuilt == lastOp.op = "rebuild"

\* the particle each target of the last rebuild call was given (0: none)
PlanOfCall == Picks(pre.voxels, lastOp.targetModel, 1, {})

RubbleSlots == { i \in DOMAIN rebuildTargets : rebuildTargets[i].isRubble }

MatchedSlots == DOMAIN rebuildTargets \ RubbleSlots

(* C9: for n particles and m targets rebuild produces a one-to-one partial *)
(* assignment: no particle gets two targets, no target goes to two         *)
(* particles, exactly min(n, m) particles are matched, the other           *)
(* n - min(n, m) are exactly the rubble, and with m > n the surplus        *)
(* targets get no particle, without error.                                 *)
C9_OneToOnePartialAssignment ==
    Rebuilt =>
        LET n == Len(pre.voxels)
            m == Len(lastOp.targetModel)
            picks == PlanOfCall
            given == { picks[k] : k \in DOMAIN picks } \ {0}
        IN  /\ Len(picks) = m
            /\ given \subseteq 1..n
            /\ \A k1, k2 \in DOMAIN picks :
                  (k1 # k2 /\ picks[k1] # 0) => picks[k1] # picks[k2]
            /\ Cardinality(given) = Min(n, m)
            /\ Cardinality({ k \in DOMAIN picks : picks[k] = 0 }) = m - Min(n, m)
            /\ DOMAIN rebuildTargets = 1..n
            /\ MatchedSlots = given
            /\ Cardinality(RubbleSlots) = n - Min(n, m)
            /\ \A k \in DOMAIN picks : picks[k] # 0 =>
                  /\ AtTarget(Matched(lastOp.targetModel[k]), rebuildTargets[picks[k]])
                  /\ rebuildTargets[picks[k]].delay = Delay(lastOp.targetModel[k].y)
            /\ \A i \in RubbleSlots : AtTarget(voxels[i], rebuildTargets[i])
            /\ state = "REBUILDING"

\* a rebuild with more targets than particles: every particle matched, targets left over
C9_Witness ==
    /\ Rebuilt
    /\ Len(pre.voxels) > 0
    /\ Len(lastOp.targetModel) > Len(pre.voxels)
    /\ RubbleSlots = {}

(* C10: a step in REBUILDING leaves every rubble particle and every        *)
(* matched particle whose delay has not elapsed completely unchanged, and  *)
(* integrates no particle by free fall or floor collision: velocities are  *)
(* kept or zeroed and positions only move toward the target.               *)
C10_RebuildStepFreezesRubbleAndGated ==
    SteppedRebuilding =>
        \A i \in DOMAIN voxels :
            LET t == pre.rebuildTargets[i]
                old == pre.voxels[i]
                new == voxels[i]
            IN  /\ (t.isRubble \/ Waiting(i)) => new = old
                /\ new.vy \in {old.vy, 0} /\ new.vx \in {old.vx, 0} /\ new.vz \in {old.vz, 0}
                /\ new.rvx = old.rvx /\ new.rvy = old.rvy /\ new.rvz = old.rvz
                /\ Between(new.x, old.x, t.x) /\ Between(new.y, old.y, t.y)
                /\ Between(new.z, old.z, t.z)
                /\ new.id = old.id /\ new.color = old.color

\* a step that passed over a rubble particle in mid-fall and a matched one still waiting
C10_Witness ==
    /\ SteppedRebuilding
    /\ state = "REBUILDING"
    /\ \E i \in DOMAIN voxels :
          /\ pre.rebuildTargets[i].isRubble
          /\ Fall(pre.voxels[i]) # pre.voxels[i]
          /\ voxels[i].y > FLOOR_Y + Scale
    /\ \E i \in DOMAIN voxels : Waiting(i) /\ Fall(pre.voxels[i]) # pre.voxels[i]

----------------------------------------------------------------------------
(* The delay of a matched target *)

\* target heights around the floor, in whole units
TargetHeights == { FLOOR_Y \div Scale + d : d \in {-2, -1, 0, 1, 2, 3, 4} }

(* C11: the start delay of a matched particle is non-decreasing in the     *)
(* height of its target and is 0 for a target at or below the floor, so in *)
(* a REBUILDING step a matched particle with a lower target is never held  *)
(* back while one with a higher target is let through.                     *)
C11_DelayMonotoneInHeight ==
    /\ \A h1, h2 \in TargetHeights : h1 < h2 => Delay(h1) <= Delay(h2)
    /\ \A h \in TargetHeights : h * Scale <= FLOOR_Y => Delay(h) = 0
    /\ \A i, j \in MatchedSlots :
          rebuildTargets[i].y < rebuildTargets[j].y
              => rebuildTargets[i].delay <= rebuildTargets[j].delay
    /\ \A i \in MatchedSlots : rebuildTargets[i].y <= FLOOR_Y => rebuildTargets[i].delay = 0
    /\ SteppedRebuilding =>
          \A i, j \in DOMAIN pre.rebuildTargets :
              ( /\ ~pre.rebuildTargets[i].isRubble /\ ~pre.rebuildTargets[j].isRubble
                /\ pre.rebuildTargets[i].y < pre.rebuildTargets[j].y
                /\ Waiting(i) ) => Waiting(j)

\* a step in which the particle bound for the floor moved while the one bound
\* for height -10 was still held back
C11_Witness ==
    /\ SteppedRebuilding
    /\ \E i, j \in DOMAIN voxels :
          /\ ~pre.rebuildTargets[i].isRubble /\ ~pre.rebuildTargets[j].isRubble
          /\ pre.rebuildTargets[i].y = FLOOR_Y
          /\ pre.rebuildTargets[j].y = FLOOR_Y + 2 * Scale
          /\ ~Waiting(i) /\ voxels[i] # pre.voxels[i]
          /\ Waiting(j) /\ voxels[j] = pre.voxels[j]

----------------------------------------------------------------------------
(* The particle store and the callbacks *)

(* C12: in every reachable state the number of particles is the length of  *)
(* the shape loaded last (0 before the first load) and the id of every     *)
(* particle is its slot index; a knock-out, a dismantle, a rebuild and a   *)
(* step never add, remove or reorder particles.                            *)
C12_ParticlesKeepCountAndSlots ==
    /\ Len(voxels) = (IF countNotified = -1 THEN 0 ELSE countNotified)
    /\ DOMAIN voxels = 1..Len(voxels)
    /\ \A i \in DOMAIN voxels : voxels[i].id = i - 1
    /\ lastOp.op = "load" => Len(voxels) = Len(lastOp.data)
    /\ lastOp.op \in {"click", "dismantle", "rebuild", "step"} =>
          /\ Len(voxels) = Len(pre.voxels)
          /\ \A i \in DOMAIN voxels : voxels[i].id = pre.voxels[i].id
                                      /\ voxels[i].color = pre.voxels[i].color

\* a step of a rebuild over the three particles of the raised tower, one of
\* them moving and one of them rubble
C12_Witness ==
    /\ SteppedRebuilding
    /\ countNotified = Len(RaisedTower)
    /\ \E i \in DOMAIN voxels : voxels[i] # pre.voxels[i]
    /\ \E i \in DOMAIN voxels : pre.rebuildTargets[i].isRubble

(* C13: after every operation (load, knock-out, dismantle, rebuild, step)  *)
(* the state delivered last to onStateChange is the controller's current   *)
(* state, every state change is delivered by one call, and every load      *)
(* delivers the new particle count to onCountChange.                       *)
C13_CallbacksFollowState ==
    /\ Observed = state
    /\ stateCalls > 0 => stateNotified = state
    /\ state # pre.state => stateCalls = pre.stateCalls + 1 /\ stateNotified = state
    /\ lastOp.op \in {"load", "rebuild"} => stateCalls = pre.stateCalls + 1
    /\ lastOp.op = "load" =>
          /\ countNotified = Len(lastOp.data)
          /\ countNotified = Len(voxels)

\* the step that ended a rebuild of a loaded shape: load, rebuild and the step
\* each delivered a state
C13_Witness ==
    /\ SteppedRebuilding
    /\ state = "STABLE" /\ stateNotified = "STABLE"
    /\ stateCalls = pre.stateCalls + 1
    /\ stateCalls >= 3
    /\ countNotified = Len(FourParticles)

----------------------------------------------------------------------------
(* The free-fall step *)

SteppedFree == lastOp.op = "step" /\ pre.state # "REBUILDING"

\* the vertical velocity of particle i after the gravity decrement of the step
IntegratedVy(i) == pre.voxels[i].vy - MulR(52, Scale, 1000)

\* particle i was falling and its integrated height lay under FLOOR_Y + 0.5
Crossed(i) ==
    /\ pre.voxels[i].isFalling
    /\ pre.voxels[i].y + IntegratedVy(i) < FLOOR_Y + MulR(5, Scale, 10)

RestSpeed == MulR(5, Scale, 100)

\* b equals a * p / 100 up to half a unit of 1/Scale
Times(b, a, p) == Abs(100 * b - p * a) <= 50

\* the three linear components of particle i are under 0.05 after the damping
Damped(i) ==
    /\ Abs(MulR(IntegratedVy(i), -42, 100)) < RestSpeed
    /\ Abs(MulR(pre.voxels[i].vx, 75, 100)) < RestSpeed
    /\ Abs(MulR(pre.voxels[i].vz, 75, 100)) < RestSpeed

Still(v) == v.vx = 0 /\ v.vy = 0 /\ v.vz = 0 /\ v.rvx = 0 /\ v.rvy = 0 /\ v.rvz = 0

(* C14, as claimed: in a step taken in STABLE or DISMANTLING every falling *)
(* particle that crosses the floor plane (integrated y < FLOOR_Y + 0.5)    *)
(* with vertical velocity v < 0 ends the step at y = FLOOR_Y + 0.5 with    *)
(* vertical velocity -0.42 * v, for every such v.                          *)
C14_AsClaimed ==
    SteppedFree =>
        \A i \in DOMAIN voxels :
            (Crossed(i) /\ IntegratedVy(i) < 0) =>
                /\ voxels[i].y = FLOOR_Y + MulR(5, Scale, 10)
                /\ Times(voxels[i].vy, IntegratedVy(i), -42)

(* C14, amended: such a particle ends the step at y = FLOOR_Y + 0.5; its   *)
(* vertical velocity is -0.42 * v, v being the velocity after the gravity  *)
(* decrement of the step, unless the damped linear components are all      *)
(* under 0.05 in magnitude, in which case all six velocities are 0.        *)
C14_BounceUnlessAtRest ==
    SteppedFree =>
        \A i \in DOMAIN voxels :
            (Crossed(i) /\ IntegratedVy(i) < 0) =>
                /\ voxels[i].y = FLOOR_Y + MulR(5, Scale, 10)
                /\ voxels[i].isFalling
                /\ IF Damped(i) THEN Still(voxels[i])
                   ELSE /\ Times(voxels[i].vy, IntegratedVy(i), -42)
                        /\ Times(voxels[i].vx, pre.voxels[i].vx, 75)
                        /\ Times(voxels[i].vz, pre.voxels[i].vz, 75)

\* a step in which one particle bounced off the floor and another came to rest on it
C14_Witness ==
    /\ SteppedFree
    /\ \E i \in DOMAIN voxels :
          /\ Crossed(i) /\ IntegratedVy(i) < 0 /\ ~Damped(i)
          /\ voxels[i].vy > 0
          /\ pre.voxels[i].y > FLOOR_Y + MulR(5, Scale, 10)
    /\ \E i \in DOMAIN voxels :
          /\ Crossed(i) /\ IntegratedVy(i) < 0 /\ Damped(i)
          /\ pre.voxels[i].vx # 0

\* the three linear velocity components of v are under 0.05 in magnitude
Slow(v) == Abs(v.vx) < RestSpeed /\ Abs(v.vy) < RestSpeed /\ Abs(v.vz) < RestSpeed

(* C15, as claimed: in a step taken in STABLE or DISMANTLING, a falling    *)
(* particle that ends the step with all three linear velocity components   *)
(* under 0.05 in magnitude has all six velocity components equal to 0.      *)
C15_AsClaimed ==
    SteppedFree =>
        \A i \in DOMAIN voxels :
            (pre.voxels[i].isFalling /\ Slow(voxels[i])) => Still(voxels[i])

(* C15, amended: in such a step a falling particle that crosses the floor  *)
(* plane and ends the step with all three linear components under 0.05    *)
(* has all six velocity components equal to 0; a falling particle that     *)
(* does not cross the floor plane is not tested for rest: it keeps its     *)
(* horizontal and angular velocities and its vertical one drops by 0.052.  *)
C15_RestOnlyAtFloor ==
    SteppedFree =>
        \A i \in DOMAIN voxels :
            pre.voxels[i].isFalling =>
                /\ (Crossed(i) /\ Slow(voxels[i])) => Still(voxels[i])
                /\ ~Crossed(i) =>
                      /\ voxels[i].vy = IntegratedVy(i)
                      /\ voxels[i].vx = pre.voxels[i].vx /\ voxels[i].vz = pre.voxels[i].vz
                      /\ voxels[i].rvx = pre.voxels[i].rvx /\ voxels[i].rvy = pre.voxels[i].rvy
                      /\ voxels[i].rvz = pre.voxels[i].rvz

\* a step in which a spinning particle came to rest on the floor
C15_Witness ==
    /\ SteppedFree
    /\ \E i \in DOMAIN voxels :
          /\ pre.voxels[i].isFalling /\ Crossed(i)
          /\ pre.voxels[i].rvx # 0 /\ pre.voxels[i].vx # 0
          /\ Slow(voxels[i]) /\ Still(voxels[i])

(* C16: every rebuild call, from any state and also during an earlier      *)
(* rebuild, replaces the assignment in full: one entry per particle slot,  *)
(* computed from the target list of the call and the particles as they     *)
(* are at the call, the delays counting from the start time of the call;   *)
(* in every REBUILDING state each particle slot has an assignment.         *)
C16_RebuildReplacesAssignment ==
    /\ Rebuilt =>
          /\ rebuildTargets = Mappings(pre.voxels, lastOp.targetModel)
          /\ rebuildStartTime = pre.now
          /\ voxels = pre.voxels
          /\ \A k \in DOMAIN PlanOfCall : PlanOfCall[k] # 0 =>
                rebuildTargets[PlanOfCall[k]] = Matched(lastOp.targetModel[k])
          /\ \A i \in DOMAIN voxels :
                (\A k \in DOMAIN PlanOfCall : PlanOfCall[k] # i) =>
                    rebuildTargets[i] = Rubble(voxels[i])
    /\ state = "REBUILDING" =>
          /\ DOMAIN rebuildTargets = DOMAIN voxels
          /\ rebuildStartTime <= now
          /\ \A i \in DOMAIN voxels :
                /\ rebuildTargets[i].isRubble \in BOOLEAN
                /\ rebuildTargets[i].isRubble => rebuildTargets[i].delay = 0
    /\ SteppedRebuilding => /\ rebuildTargets = pre.rebuildTargets
                            /\ rebuildStartTime = pre.rebuildStartTime

\* a rebuild called in the middle of an earlier rebuild, with another target
\* list and at a later time
C16_Witness ==
    /\ Rebuilt
    /\ pre.state = "REBUILDING"
    /\ Len(voxels) > 0
    /\ pre.rebuildTargets # rebuildTargets
    /\ pre.rebuildStartTime < rebuildStartTime
    /\ \E i \in DOMAIN voxels : ~pre.rebuildTargets[i].isRubble /\ rebuildTargets[i].isRubble

----------------------------------------------------------------------------
(* Shapes made from JSON *)

\* the coordinate out made from the JSON value js is as the claim has it: a
\* number is kept, a missing or non-numeric value gives 0
CoordinateAsClaimed(js, out) ==
    /\ js.t = "number" => out = js.n
    /\ (js.t \in {"undefined", "nan"} \/ (js.t = "string" /\ ToNumber(js).t = "nan")) => out = 0

\* the colour out made from the JSON value js is as the claim has it: a
\* missing or unparsable colour gives 0xCCCCCC, a hex string its value
ColorAsClaimed(js, out) ==
    /\ (js.t = "undefined" \/ (js.t = "string" /\ ParseInt16(StripHash(js.s)).t = "nan"))
          => out = GRAY
    /\ js = JsStr(HashGold) => out = GOLD

(* C17, as claimed: when a shape is taken from the generative source or    *)
(* from a JSON import, a record with a missing or non-numeric coordinate   *)
(* gets the coordinate 0 and a record with a missing or unparsable colour  *)
(* gets 0xCCCCCC; a malformed record never makes the load fail and never   *)
(* makes the other records of the shape be discarded.                      *)
C17_AsClaimed ==
    lastRaw.kind = "array" =>
        /\ lastRaw.via = "import" => lastOp.op = "load"
        /\ lastRaw.via = "fetch" =>
              /\ nextModelRef.full /\ nextModelRef.name # "Local Blueprint"
              /\ consecutiveFailures = 0
        /\ LET data == IF lastRaw.via = "import" THEN lastOp.data ELSE nextModelRef.data
           IN  /\ Len(data) = Len(lastRaw.items)
               /\ \A k \in DOMAIN lastRaw.items :
                     LET v == lastRaw.items[k]
                         colour == IF lastRaw.via = "import" THEN Or(v.c, v.color) ELSE v.color
                     IN  ~v.isNull =>
                             /\ CoordinateAsClaimed(v.x, data[k].x)
                             /\ CoordinateAsClaimed(v.y, data[k].y)
                             /\ CoordinateAsClaimed(v.z, data[k].z)
                             /\ ColorAsClaimed(colour, data[k].color)

----------------------------------------------------------------------------
(* The integrity pass *)

\* the last operation was a knock-out, which ends with an integrity pass
PassRan == lastOp.op = "click" /\ pre.state = "STABLE"

\* the particles that were not falling when the pass began
Resting == { i \in DOMAIN pre.voxels : ~pre.voxels[i].isFalling /\ i # lastOp.index }

\* the rounded cells of a and b are neighbours along one axis
Adjacent(a, b) ==
    LET ca == Cell(a)
        cb == Cell(b)
    IN  << ca[1] - cb[1], ca[2] - cb[2], ca[3] - cb[3] >> \in Neighbors

\* the resting particles linked to a particle of the set by a chain of resting
\* particles in neighbouring cells
RECURSIVE Linked(_)
Linked(set) ==
    LET more == { n \in Resting \ set :
                    \E i \in set : Adjacent(pre.voxels[i], pre.voxels[n]) }
    IN  IF more = {} THEN set ELSE Linked(set \cup more)

GroundAnchors == { i \in Resting : pre.voxels[i].y <= AnchorHeight }

(* C18, as claimed: after an integrity pass a particle that was not        *)
(* falling before it is grounded if and only if it is a ground anchor      *)
(* (y <= FLOOR_Y + 1.2) or linked to one by a chain of non-falling         *)
(* particles in 6-connected neighbouring rounded cells; every other such   *)
(* particle has become falling.  This for every layout, several particles  *)
(* rounding to one cell included.                                          *)
C18_AsClaimed ==
    PassRan =>
        \A i \in Resting :
            IF i \in Linked(GroundAnchors)
            THEN Supported(voxels[i])
            ELSE Collapsing(voxels[i])

----------------------------------------------------------------------------
(* The convergence snap *)

\* particle i is matched, its delay has elapsed and the easing of the step
\* brings it within the snap threshold of its target
Snaps(i) ==
    /\ ~pre.rebuildTargets[i].isRubble
    /\ ~Waiting(i)
    /\ LET t == pre.rebuildTargets[i]
           e == Eased(pre.voxels[i], t)
       IN  ~Apart(t.x - e.x, t.y - e.y, t.z - e.z)

(* C19, as claimed: a matched particle that reaches the snap threshold in  *)
(* a REBUILDING step ends the step exactly on its target, with rotation    *)
(* zero, isFalling = false, grounded = true and all velocities zero, the   *)
(* three linear and the three angular ones.                                *)
C19_AsClaimed ==
    SteppedRebuilding =>
        \A i \in DOMAIN voxels :
            Snaps(i) =>
                /\ AtTarget(voxels[i], pre.rebuildTargets[i])
                /\ voxels[i].rx = 0 /\ voxels[i].ry = 0 /\ voxels[i].rz = 0
                /\ Supported(voxels[i])
                /\ Still(voxels[i])

(* C20: apart from a load, isFalling goes from true to false only at the   *)
(* convergence snap of a REBUILDING step; no step taken in STABLE or       *)
(* DISMANTLING, the rest snap included, and no integrity pass ever clears  *)
(* isFalling or sets grounded = true on a falling particle.                *)
C20_FallingClearedOnlyBySnap ==
    lastOp.op \in {"click", "dismantle", "rebuild", "step"} =>
        \A i \in DOMAIN voxels :
            pre.voxels[i].isFalling =>
                /\ ~voxels[i].isFalling =>
                      /\ SteppedRebuilding /\ Snaps(i)
                      /\ AtTarget(voxels[i], pre.rebuildTargets[i])
                /\ voxels[i].grounded => ~voxels[i].isFalling
                /\ ~SteppedRebuilding => Collapsing(voxels[i])

\* a step in DISMANTLING in which a scattered particle came to rest on the
\* floor and is still falling
C20_Witness ==
    /\ SteppedFree
    /\ state = "DISMANTLING"
    /\ \E i \in DOMAIN voxels :
          /\ Crossed(i) /\ Damped(i)
          /\ pre.voxels[i].vx # 0
          /\ Still(voxels[i])
          /\ Collapsing(voxels[i])

----------------------------------------------------------------------------
(* The choice of the planner *)

\* the particles still free when target k of the last rebuild call is served
FreeAt(k) == DOMAIN pre.voxels \ { PlanOfCall[j] : j \in 1..(k - 1) }

\* the squared weighted colour distance of particle i to target k
DistTo(i, k) == ColorDistSq(pre.voxels[i].color, lastOp.targetModel[k].color)

\* particle p has the least distance to target k among the free particles, and
\* the lowest index among those with that distance
LeastOf(p, k) ==
    /\ p \in FreeAt(k)
    /\ \A i \in FreeAt(k) :
          /\ DistTo(p, k) <= DistTo(i, k)
          /\ DistTo(i, k) = DistTo(p, k) => p <= i

\* the particles as the planner reads them: their colours alone
ColoursOnly(vs) == [ i \in DOMAIN vs |-> [ color |-> vs[i].color ] ]

(* C21, as claimed: for each target, in list order, rebuild assigns the    *)
(* free particle whose weighted colour distance to the target colour is    *)
(* least among all free particles, ties going to the lowest pool index.    *)
C21_AsClaimed ==
    Rebuilt =>
        \A k \in DOMAIN PlanOfCall :
            IF FreeAt(k) = {} THEN PlanOfCall[k] = 0
            ELSE LeastOf(PlanOfCall[k], k)

(* C21, amended: for each target, in list order, rebuild assigns the first *)
(* free particle in pool order whose distance to the target colour is      *)
(* under 0.01, if there is one (the scan stops there, though a later       *)
(* particle may be nearer); otherwise the free particle of least distance, *)
(* ties going to the lowest pool index.  The assignment is a function of   *)
(* the particle colours and the ordered target list.                       *)
C21_FirstNearExactElseLeast ==
    Rebuilt =>
        /\ \A k \in DOMAIN PlanOfCall :
              LET near == { i \in FreeAt(k) : DistTo(i, k) < NearExactSq }
                  p == PlanOfCall[k]
              IN  /\ FreeAt(k) = {} => p = 0
                  /\ near # {} => p \in near /\ \A i \in near : p <= i
                  /\ (FreeAt(k) # {} /\ near = {}) => LeastOf(p, k)
                  /\ p # 0 => rebuildTargets[p] = Matched(lastOp.targetModel[k])
        /\ PlanOfCall = Picks(ColoursOnly(pre.voxels), lastOp.targetModel, 1, {})

\* a rebuild in which the scan stopped at a near-exact particle with a nearer
\* one behind it
C21_Witness ==
    /\ Rebuilt
    /\ \E k \in DOMAIN PlanOfCall :
          /\ PlanOfCall[k] # 0
          /\ DistTo(PlanOfCall[k], k) < NearExactSq
          /\ \E i \in FreeAt(k) : i > PlanOfCall[k] /\ DistTo(i, k) < DistTo(PlanOfCall[k], k)

----------------------------------------------------------------------------
(* C22: with autopilot enabled, whenever the engine enters DISMANTLING     *)
(* (and the run has a command left), rebuild is eventually invoked and the *)
(* engine reaches REBUILDING, given that timers fire and every request     *)
(* settles: whether requests succeed, fail, or are never made for want of  *)
(* an API key.                                                             *)
C22_AsClaimed ==
    (state = "DISMANTLING" /\ cmds < MaxCommands) ~> (state = "REBUILDING")

(* C23: at most one fetchNextModel request is in flight at any time, under *)
(* every interleaving of the autopilot's timeout callbacks, effect re-runs *)
(* and request completions: fetchInProgress is set exactly while a request *)
(* is pending, so no request is started while it is set, and every exit of *)
(* a request (a stored model, a response without text, an exception)       *)
(* clears it.                                                              *)
C23_AtMostOneRequest ==
    /\ requests <= 1
    /\ fetchInProgress <=> requests = 1

\* a request made in DISMANTLING after an earlier one came back without text
C23_Witness ==
    /\ state = "DISMANTLING"
    /\ requests = 1
    /\ fetchInProgress
    /\ lastRaw.via = "fetch"
    /\ lastRaw.kind = "empty"


====
